---- MODULE Spec2Model ----
(***************************************************************************)
(* Model of the CAT module (src/main.py): the quiz sessions kept in the    *)
(* Redis store `r` and the four REST handlers that read and write them.    *)
(*                                                                         *)
(* The store is modelled key by key.  A scalar key holds <<>> when it is   *)
(* absent and <<v>> when it holds v; a list key holds the list itself (an  *)
(* absent Redis list reads as the empty list).  Every handler is one       *)
(* action that carries out all the store operations the code performs up   *)
(* to its return or to the exception that ends it: the store has no        *)
(* transactions, so the writes made before an exception stay.              *)
(*                                                                         *)
(* Numbers.  Abilities and difficulties are small integers.  The item      *)
(* information of the catsim library is abstracted by Info (largest where  *)
(* the ability equals the difficulty), the standard error by See (a        *)
(* decreasing function of the summed information).  The result of the      *)
(* differential evolution optimiser is any ability of Thetas.              *)
(***************************************************************************)
EXTENDS Integers, Sequences, FiniteSets, TLC

\* ---------------------------------------------------------------- bounds
NumQuestions == 2    \* questions a client can put in a bank
MaxQuestions == 2    \* largest maxNumberOfQuestions passed to create
MaxStored == 2       \* cap on the length of the stored lists of one quiz
MaxRegistry == 2     \* cap on the length of the list "quizIds"

\* ------------------------------------------------------------ value sets
QuizIds == {1}                     \* values id(quizAPI) can take
Thetas == {-1, 1}
RandomLevel == 999                 \* 99.9, the "random proficiency" input
InputLevels == {1, RandomLevel}
MinAccuracies == {0, 5}
Selectors == {"maxInfoSelector", "linearSelector", "otherSelector"}
Estimators == {"differentialEvolutionEstimator", "linearEstimator"}
NoAnswer == -1                     \* isCorrect = None
Answers == {NoAnswer, 0, 1, 2}     \* 2: a value outside [0,1]

DefaultSEE == 99     \* config.defaultAdaptiveQuiz["standardErrorOfEstimation"]
SeeScale == 12       \* numerator of the abstract standard error

Keys == {"maxNumberOfQuestions", "minMeasurementAccuracy",
         "inputProficiencyLevel", "questionSelector", "competencyEstimator",
         "standardErrorOfEstimation", "quizFinished", "minDiff", "maxDiff",
         "questions", "estTheta", "itemIndex", "administeredItems",
         "responses"}

\* ---------------------------------------------------------------- state
VARIABLES
    r,         \* the Redis store: r[q][k] is the value under key "<q>_<k>"
    quizIds,   \* the Redis list "quizIds"
    last,      \* the last request and its outcome (observation only)
    calls      \* the GET /quiz/question requests in flight, by worker

vars == <<r, quizIds, last, calls>>

\* ------------------------------------------------------- general helpers
Range(s) == {s[i] : i \in 1..Len(s)}

RECURSIVE SeqSum(_)
SeqSum(s) == IF s = <<>> THEN 0 ELSE s[1] + SeqSum(Tail(s))

RECURSIVE SeqMin(_)
SeqMin(s) == IF Len(s) = 1 THEN s[1]
             ELSE LET m == SeqMin(Tail(s)) IN IF s[1] < m THEN s[1] ELSE m

RECURSIVE SeqMax(_)
SeqMax(s) == IF Len(s) = 1 THEN s[1]
             ELSE LET m == SeqMax(Tail(s)) IN IF s[1] > m THEN s[1] ELSE m

RECURSIVE RemoveAll(_, _)
RemoveAll(s, v) == IF s = <<>> THEN <<>>
                   ELSE IF s[1] = v THEN RemoveAll(Tail(s), v)
                   ELSE <<s[1]>> \o RemoveAll(Tail(s), v)

Abs(x) == IF x < 0 THEN -x ELSE x

\* str(bool) and distutils.util.strtobool on the values the code stores
str(b) == IF b THEN "True" ELSE "False"
strtobool(s) == s \in {"True", "true", "1", "yes", "y", "t", "on"}

\* ------------------------------------------------------- store operations
Has(st, q, k) == st[q][k] # <<>>
Get(st, q, k) == st[q][k][1]
Set(st, q, k, v) == [st EXCEPT ![q][k] = <<v>>]
RPush(st, q, k, v) == [st EXCEPT ![q][k] = Append(@, v)]

EmptyQuiz == [k \in Keys |-> <<>>]

\* question n of the client has external id 10 + n and difficulty n - 2;
\* the other parameters keep the defaults of QuestionAPI
Question(n) ==
    [id |-> 10 + n, discrimination |-> 1, difficulty |-> n - 2,
     pseudoGuessing |-> 0, upperAsymptote |-> 1]

Questions == {Question(n) : n \in 1..NumQuestions}

\* the banks a client passes: lists of distinct questions
Banks == {b \in UNION {[1..n -> Questions] : n \in 0..NumQuestions} :
             \A i, j \in 1..Len(b) : i # j => b[i] # b[j]}

Observation(op, q, status) == [op |-> op, quizId |-> q, status |-> status]

\* the workers that serve requests side by side, and the locals of a
\* get_next_question in flight: its position, its argument, its copy of
\* administeredItems (line 230), its estimate (line 254) and its outcome
Workers == {1, 2}

Idle ==
    [pc |-> "idle", quizId |-> 0, isCorrect |-> NoAnswer,
     administered_items |-> <<>>, estTheta |-> 0, status |-> 0]

Init ==
    /\ r = [q \in QuizIds |-> EmptyQuiz]
    /\ quizIds = <<>>
    /\ last = Observation("none", 0, 0)
    /\ calls = [w \in Workers |-> Idle]

\* -------------------------------------------------------- helper methods
Registered(ids, quizId) == quizId \in Range(ids)
quizIdExists(quizId) == Registered(quizIds, quizId)

get_items(st, quizId) == st[quizId]["questions"]

get_questionIds(st, quizId) ==
    [i \in 1..Len(st[quizId]["questions"]) |-> st[quizId]["questions"][i].id]

\* variant of get_administeredItems: the range read stops one element early
get_administeredItems_short(st, quizId) ==
    SubSeq(st[quizId]["administeredItems"], 1,
           Len(st[quizId]["administeredItems"]) - 1)

get_administeredItems(st, quizId) == st[quizId]["administeredItems"]

\* the responses as the Boolean vector the estimator is given
get_responses(st, quizId) ==
    [i \in 1..Len(st[quizId]["responses"]) |-> st[quizId]["responses"][i] = 1]

get_responses_as_float(st, quizId) == st[quizId]["responses"]

\* indices 0 .. len(questions), the upper end included (while i <= len)
get_indices(st, quizId) ==
    [i \in 1..(Len(get_items(st, quizId)) + 1) |-> i - 1]

\* ------------------------------------------------ the catsim library calls
\* catsim is imported, not part of src/main.py: each operator below states
\* what the call made at the mapped line of main.py does.  A selector with no
\* item left returns None; MinErrorStopper compares with <; MaxItemStopper
\* raises when more items than its limit were administered and otherwise
\* compares with =; the estimator rejects vectors of different lengths.
\* an ability is stored as a quotient <<numerator, denominator>>
Theta(t) == <<t, 1>>
float(v) == v[1]          \* read where the stored ability is integral

\* item information at ability theta: largest where theta = difficulty
Info(theta, item) ==
    LET d == Abs(theta - item.difficulty)
    IN item.discrimination * item.discrimination * (IF d >= 2 THEN 1 ELSE 3 - d)

IndexOk(items, index) == index >= 0 /\ index < Len(items)

\* items[administered_items]
Administered(items, administered) ==
    [i \in 1..Len(administered) |-> items[administered[i] + 1]]

\* irt.see: the standard error over the administered items (inf when none)
See(theta, administeredRows) ==
    LET total == SeqSum([i \in 1..Len(administeredRows) |->
                            Info(theta, administeredRows[i])])
    IN IF total = 0 THEN DefaultSEE ELSE SeeScale \div total

\* MaxInfoSelector.select: the most informative item not yet administered,
\* the lowest index among equals; <<>> is None (no item left)
MaxInfoSelect(items, administered, theta) ==
    LET valid == {i \in 0..(Len(items) - 1) : i \notin Range(administered)}
        best == {i \in valid : \A j \in valid :
                    Info(theta, items[j + 1]) <= Info(theta, items[i + 1])}
    IN IF valid = {} THEN <<>>
       ELSE <<CHOOSE i \in best : \A j \in best : i <= j>>

\* LinearSelector.select: the first of its indexes not yet administered
LinearSelect(indexes, administered) ==
    LET rest == {i \in 1..Len(indexes) : indexes[i] \notin Range(administered)}
    IN IF rest = {} THEN <<>>
       ELSE <<indexes[CHOOSE i \in rest : \A j \in rest : i <= j]>>

\* MinErrorStopper.stop and MaxItemStopper.stop
MinErrorStop(minError, theta, administeredRows) ==
    See(theta, administeredRows) < minError
MaxItemRaises(maxItems, administeredRows) == Len(administeredRows) > maxItems
MaxItemStop(maxItems, administeredRows) == Len(administeredRows) = maxItems

\* DifferentialEvolutionEstimator.estimate raises when an administered index
\* is outside the bank or the response vector has another length
EstimateRaises(items, administered, response_vector) ==
    \/ \E i \in 1..Len(administered) : ~IndexOk(items, administered[i])
    \/ Len(response_vector) # Len(administered)

\* ------------------------------------------------------------ get_selector
SelectorKnown(st, quizId) ==
    Get(st, quizId, "questionSelector") \in {"maxInfoSelector", "linearSelector"}

Select(st, quizId, administered, theta) ==
    IF Get(st, quizId, "questionSelector") = "maxInfoSelector"
    THEN MaxInfoSelect(get_items(st, quizId), administered, theta)
    ELSE LinearSelect(get_indices(st, quizId), administered)

\* ----------------------------------------------------------- get_estimator
EstimatorKnown(st, quizId) ==
    /\ Get(st, quizId, "competencyEstimator") = "differentialEvolutionEstimator"
    /\ Has(st, quizId, "minDiff")
    /\ Has(st, quizId, "maxDiff")

Outcome(st, status, questionId) ==
    [st |-> st, status |-> status, questionId |-> questionId]

\* ------------------------------------------------------------- create_quiz
init_initializer(st, quizId, theta0) == Set(st, quizId, "estTheta", Theta(theta0))

\* numpy.amin/amax over an empty bank raise ValueError
init_estimator_raises(st, quizId, competencyEstimator) ==
    /\ competencyEstimator = "differentialEvolutionEstimator"
    /\ get_items(st, quizId) = <<>>

init_estimator(st, quizId, competencyEstimator) ==
    IF competencyEstimator = "differentialEvolutionEstimator"
    THEN LET difficulties == [i \in 1..Len(get_items(st, quizId)) |->
                                 get_items(st, quizId)[i].difficulty]
         IN Set(Set(st, quizId, "minDiff", SeqMin(difficulties)),
                quizId, "maxDiff", SeqMax(difficulties))
    ELSE st

\* variant of init_selector: a linear quiz also starts with the standard
\* error 0 that its result reports
init_selector_zeroSE(st, quizId, questionSelector, questions) ==
    IF questionSelector = "linearSelector"
    THEN Set(Set(Set(st, quizId, "maxNumberOfQuestions", Len(questions)),
                 quizId, "minMeasurementAccuracy", 0),
             quizId, "standardErrorOfEstimation", 0)
    ELSE st

init_selector(st, quizId, questionSelector, questions) ==
    IF questionSelector = "linearSelector"
    THEN Set(Set(st, quizId, "maxNumberOfQuestions", Len(questions)),
             quizId, "minMeasurementAccuracy", 0)
    ELSE st

RECURSIVE RPushAll(_, _, _, _)
RPushAll(st, quizId, k, vs) ==
    IF vs = <<>> THEN st
    ELSE RPushAll(RPush(st, quizId, k, vs[1]), quizId, k, Tail(vs))

create_quiz(st, quizId, quizAPI, theta0) ==
    LET s1 == [st EXCEPT ![quizId] =
                  [k \in Keys |->
                     CASE k = "maxNumberOfQuestions" -> <<quizAPI.maxNumberOfQuestions>>
                       [] k = "minMeasurementAccuracy" -> <<quizAPI.minMeasurementAccuracy>>
                       [] k = "inputProficiencyLevel" -> <<quizAPI.inputProficiencyLevel>>
                       [] k = "questionSelector" -> <<quizAPI.questionSelector>>
                       [] k = "competencyEstimator" -> <<quizAPI.competencyEstimator>>
                       [] k = "standardErrorOfEstimation" -> <<DefaultSEE>>
                       [] k = "quizFinished" -> <<str(FALSE)>>
                       [] OTHER -> st[quizId][k]]]
        s2 == RPushAll(s1, quizId, "questions", quizAPI.questions)
        s3 == init_initializer(s2, quizId, theta0)
    IN IF init_estimator_raises(s3, quizId, quizAPI.competencyEstimator)
       THEN Outcome(s3, 500, <<>>)
       ELSE Outcome(init_selector(init_estimator(s3, quizId, quizAPI.competencyEstimator),
                                  quizId, quizAPI.questionSelector, quizAPI.questions),
                    201, <<>>)

\* the request bodies of POST /quiz.  No handler reads the other fields of
\* a quiz whose selector is unknown, so one value of each is enumerated.
QuizAPIs ==
    {q \in [maxNumberOfQuestions : 1..MaxQuestions,
            minMeasurementAccuracy : MinAccuracies,
            inputProficiencyLevel : InputLevels,
            questionSelector : Selectors,
            competencyEstimator : Estimators,
            questions : Banks] :
        q.questionSelector = "otherSelector" =>
            /\ q.maxNumberOfQuestions = 1
            /\ q.minMeasurementAccuracy = 0
            /\ q.inputProficiencyLevel = RandomLevel
            /\ q.competencyEstimator = "differentialEvolutionEstimator"}

\* POST /quiz.  id(quizAPI) is the address of the request object: it differs
\* from the address of no earlier request, so quizId ranges over all QuizIds.
ApiCreateQuiz(quizId, quizAPI, theta0) ==
    /\ Len(quizIds) < MaxRegistry
    /\ Len(r[quizId]["questions"]) + Len(quizAPI.questions) <= MaxStored
    /\ IF quizAPI.inputProficiencyLevel = RandomLevel
       THEN theta0 \in Thetas
       ELSE theta0 = quizAPI.inputProficiencyLevel
    /\ LET out == create_quiz(r, quizId, quizAPI, theta0)
       IN /\ r' = out.st
          /\ quizIds' = IF out.status = 201 THEN Append(quizIds, quizId) ELSE quizIds
          /\ last' = Observation("create", quizId, out.status)
    /\ UNCHANGED calls

\* ------------------------------------------------------- get_next_question
\* lines 238-248 and 267-277: select, store itemIndex, look the question id
\* up, append the index to administeredItems
Deliver(st, quizId, administered, theta) ==
    LET sel == Select(st, quizId, administered, theta)
    IN IF sel = <<>> THEN Outcome(st, 500, <<>>)
       ELSE LET s1 == Set(st, quizId, "itemIndex", sel[1])
            IN IF ~IndexOk(get_questionIds(st, quizId), sel[1])
               THEN Outcome(s1, 500, <<>>)
               ELSE Outcome(RPush(s1, quizId, "administeredItems", sel[1]), 200,
                            <<get_questionIds(st, quizId)[sel[1] + 1]>>)

\* variant of ValidAnswer: only the lower end of the range is looked at
ValidAnswer_unbounded(isCorrect) == isCorrect # NoAnswer /\ isCorrect >= 0

ValidAnswer(isCorrect) == isCorrect # NoAnswer /\ isCorrect >= 0 /\ isCorrect <= 1

QuizFinished(minStop, maxStop) == minStop \/ maxStop

get_next_question(st, quizId, isCorrect, estTheta) ==
    LET items == get_items(st, quizId)
        administered_items == get_administeredItems(st, quizId)
        minError == Get(st, quizId, "minMeasurementAccuracy")
        maxItems == Get(st, quizId, "maxNumberOfQuestions")
    IN IF ~SelectorKnown(st, quizId) THEN Outcome(st, 500, <<>>)
       ELSE IF Len(administered_items) = 0
       THEN Deliver(st, quizId, administered_items,
                    float(Get(st, quizId, "estTheta")))
       ELSE IF ValidAnswer(isCorrect)
       THEN LET s1 == RPush(st, quizId, "responses", isCorrect)
            IN IF ~EstimatorKnown(s1, quizId) THEN Outcome(s1, 500, <<>>)
               ELSE IF EstimateRaises(items, administered_items,
                                      get_responses(s1, quizId))
               THEN Outcome(s1, 500, <<>>)
               ELSE LET s2 == Set(s1, quizId, "estTheta", Theta(estTheta))
                        rows == Administered(items, administered_items)
                        s3 == Set(s2, quizId, "standardErrorOfEstimation",
                                  See(estTheta, rows))
                        minStop == MinErrorStop(minError, estTheta, rows)
                    IN IF ~minStop /\ MaxItemRaises(maxItems, rows)
                       THEN Outcome(s3, 500, <<>>)
                       ELSE LET quizFinished ==
                                    QuizFinished(minStop, MaxItemStop(maxItems, rows))
                                s4 == Set(s3, quizId, "quizFinished", str(quizFinished))
                            IN IF ~quizFinished
                               THEN Deliver(s4, quizId, administered_items, estTheta)
                               ELSE Outcome(s4, 200, <<>>)
       ELSE Outcome(st, 500, <<>>)   \* nextQuestion is unbound at the return

\* variant of NextQuestionGuard: the finished flag is not looked at
NextQuestionGuard_unchecked(quizId) ==
    IF ~quizIdExists(quizId) THEN 404 ELSE 200

NextQuestionGuard(quizId) ==
    IF ~quizIdExists(quizId) THEN 404
    ELSE IF strtobool(Get(r, quizId, "quizFinished")) THEN 406
    ELSE 200

\* GET /quiz/question
ApiGetNextQuestion(quizId, isCorrect, estTheta) ==
    /\ ValidAnswer(isCorrect) => Len(r[quizId]["responses"]) < MaxStored
    /\ LET guard == NextQuestionGuard(quizId)
           out == IF guard # 200 THEN Outcome(r, guard, <<>>)
                  ELSE get_next_question(r, quizId, isCorrect, estTheta)
       IN /\ r' = out.st
          /\ quizIds' = quizIds
          /\ last' = Observation("requestNext", quizId, out.status)
    /\ UNCHANGED calls

\* -------------------------------------------------------------- get_result
\* the loops of get_result raise IndexError on an administered index outside
\* the bank and, in the linear branch, on a missing response
ResultItemsRaise(st, quizId) ==
    \E i \in 1..Len(get_administeredItems(st, quizId)) :
        ~IndexOk(get_items(st, quizId), get_administeredItems(st, quizId)[i])

\* variant of LinearScore: the responses are summed without their weights
LinearScore_unweighted(st, quizId) ==
    LET administered == get_administeredItems(st, quizId)
        responses == get_responses_as_float(st, quizId)
        item(i) == get_items(st, quizId)[administered[i] + 1]
    IN <<SeqSum([i \in 1..Len(administered) |-> responses[i]]),
         SeqSum([i \in 1..Len(administered) |-> item(i).difficulty])>>

LinearScore(st, quizId) ==
    LET administered == get_administeredItems(st, quizId)
        responses == get_responses_as_float(st, quizId)
        item(i) == get_items(st, quizId)[administered[i] + 1]
        achievablePoints == SeqSum([i \in 1..Len(administered) |->
                                       item(i).difficulty])
        achievedPoints == SeqSum([i \in 1..Len(administered) |->
                                     item(i).difficulty * responses[i]])
    IN <<achievedPoints, achievablePoints>>

\* lines 288-311: the result of a non-adaptive quiz
get_result_linear(st, quizId) ==
    LET s1 == Set(st, quizId, "standardErrorOfEstimation", 0)
    IN IF \/ ResultItemsRaise(st, quizId)
          \/ Len(get_responses_as_float(st, quizId))
               < Len(get_administeredItems(st, quizId))
       THEN Outcome(s1, 500, <<>>)
       ELSE Outcome(Set(s1, quizId, "estTheta", LinearScore(st, quizId)),
                    200, <<>>)

\* variant of get_result_adaptive: the finished flag is recomputed from the
\* number of responses and stored
get_result_adaptive_restop(st, quizId) ==
    IF ResultItemsRaise(st, quizId) THEN Outcome(st, 500, <<>>)
    ELSE Outcome(Set(st, quizId, "quizFinished",
                     str(Len(get_responses_as_float(st, quizId))
                           >= Get(st, quizId, "maxNumberOfQuestions"))),
                 200, <<>>)

\* lines 312-325: the result of an adaptive quiz, nothing is stored
get_result_adaptive(st, quizId) ==
    IF ResultItemsRaise(st, quizId) THEN Outcome(st, 500, <<>>)
    ELSE Outcome(st, 200, <<>>)

get_result(st, quizId) ==
    IF Get(st, quizId, "questionSelector") = "linearSelector"
    THEN get_result_linear(st, quizId)
    ELSE get_result_adaptive(st, quizId)

\* variant of ResultGuard: the finished flag of a linear quiz is not looked at
ResultGuard_unchecked(quizId) ==
    IF ~quizIdExists(quizId) THEN 404 ELSE 200

ResultGuard(quizId) ==
    IF ~quizIdExists(quizId) THEN 404
    ELSE IF /\ Get(r, quizId, "questionSelector") = "linearSelector"
            /\ ~strtobool(Get(r, quizId, "quizFinished")) THEN 406
    ELSE 200

\* GET /quiz/result
ApiGetResult(quizId) ==
    LET guard == ResultGuard(quizId)
        out == IF guard # 200 THEN Outcome(r, guard, <<>>)
               ELSE get_result(r, quizId)
    IN /\ r' = out.st
       /\ quizIds' = quizIds
       /\ last' = Observation("getResult", quizId, out.status)
       /\ UNCHANGED calls

\* ------------------------------------------------------------- delete_quiz
DeletedKeys == {"maxNumberOfQuestions", "minMeasurementAccuracy",
                "inputProficiencyLevel", "questionSelector",
                "competencyEstimator", "standardErrorOfEstimation",
                "quizFinished", "minDiff", "maxDiff", "questions", "estTheta"}

\* variant of LRem: count 1, only the first occurrence is removed
LRem_first(list, v) ==
    IF v \notin Range(list) THEN list
    ELSE LET i == CHOOSE i \in 1..Len(list) :
                     list[i] = v /\ \A j \in 1..(i - 1) : list[j] # v
         IN SubSeq(list, 1, i - 1) \o SubSeq(list, i + 1, Len(list))

\* r.lrem("quizIds", 0, quizId): count 0 removes every occurrence
LRem(list, v) == RemoveAll(list, v)

delete_quiz(st, quizId) ==
    [st EXCEPT ![quizId] =
        [k \in Keys |-> IF k \in DeletedKeys THEN <<>> ELSE st[quizId][k]]]

\* DELETE /quiz
ApiDeleteQuiz(quizId) ==
    IF ~quizIdExists(quizId)
    THEN /\ UNCHANGED <<r, quizIds, calls>>
         /\ last' = Observation("delete", quizId, 404)
    ELSE /\ r' = delete_quiz(r, quizId)
         /\ quizIds' = LRem(quizIds, quizId)
         /\ last' = Observation("delete", quizId, 200)
         /\ UNCHANGED calls

\* ------------------------------------------------------------------- spec
Next ==
    \/ \E quizId \in QuizIds, quizAPI \in QuizAPIs, theta0 \in Thetas :
           ApiCreateQuiz(quizId, quizAPI, theta0)
    \/ \E quizId \in QuizIds, isCorrect \in Answers, estTheta \in Thetas :
           ApiGetNextQuestion(quizId, isCorrect, estTheta)
    \/ \E quizId \in QuizIds : ApiGetResult(quizId)
    \/ \E quizId \in QuizIds : ApiDeleteQuiz(quizId)

Spec == Init /\ [][Next]_vars

\* ------------------------------------- get_next_question, command by command
\* Nothing in the handlers locks a quiz: when two workers serve
\* GET /quiz/question side by side, the Redis commands of the two handlers
\* interleave.  Each step below is a run of consecutive lines of the handler
\* of one worker; the locals of the handler are kept in calls[w].

\* the quizzes POST /quiz leaves in an empty store
CreatedStores(quizId) ==
    {out.st : out \in
        {o \in {create_quiz([q \in QuizIds |-> EmptyQuiz], quizId, c[1], c[2]) :
                    c \in {c \in QuizAPIs \X Thetas :
                              \/ c[1].inputProficiencyLevel = RandomLevel
                              \/ c[2] = c[1].inputProficiencyLevel}} :
            o.status = 201}}

\* the same quizzes after the first question was delivered
DeliveredStores(quizId) ==
    {out.st : out \in
        {o \in {get_next_question(st, quizId, NoAnswer, 0) :
                    st \in CreatedStores(quizId)} : o.status = 200}}

InitInterleaved ==
    /\ \E quizId \in QuizIds :
          /\ r \in CreatedStores(quizId) \cup DeliveredStores(quizId)
          /\ quizIds = <<quizId>>
    /\ last = Observation("none", 0, 0)
    /\ calls = [w \in Workers |-> Idle]

\* the handler of worker w goes on with the store st and the locals call
Continue(w, st, call) ==
    /\ r' = st
    /\ calls' = [calls EXCEPT ![w] = call]
    /\ UNCHANGED <<quizIds, last>>

\* the handler of worker w ends with the store st and answers status
Return(w, st, call, status) ==
    /\ r' = st
    /\ calls' = [calls EXCEPT ![w] = [call EXCEPT !.pc = "done", !.status = status]]
    /\ last' = Observation("requestNext", call.quizId, status)
    /\ UNCHANGED quizIds

\* variant of SelectArgument: administeredItems is read again for select
SelectArgument_reread(st, call) == get_administeredItems(st, call.quizId)

\* lines 239 and 268: select gets the list read at line 230
SelectArgument(st, call) == call.administered_items

\* lines 142-145
CallGuard(w, quizId, isCorrect) ==
    /\ calls[w].pc = "idle"
    /\ LET call == [Idle EXCEPT !.quizId = quizId, !.isCorrect = isCorrect]
           guard == NextQuestionGuard(quizId)
       IN IF guard # 200 THEN Return(w, r, call, guard)
          ELSE Continue(w, r, [call EXCEPT !.pc = "read"])

\* lines 229-235 and the conditions of lines 237 and 249
CallRead(w) ==
    /\ calls[w].pc = "read"
    /\ LET call == [calls[w] EXCEPT !.administered_items =
                       get_administeredItems(r, calls[w].quizId)]
       IN IF ~SelectorKnown(r, call.quizId) THEN Return(w, r, call, 500)
          ELSE IF Len(call.administered_items) = 0
          THEN Continue(w, r, [call EXCEPT !.pc = "first"])
          ELSE IF ValidAnswer(call.isCorrect)
          THEN Continue(w, r, [call EXCEPT !.pc = "respond"])
          ELSE Return(w, r, call, 500)

\* lines 238-248
CallFirst(w) ==
    /\ calls[w].pc = "first"
    /\ LET call == calls[w]
           out == Deliver(r, call.quizId, SelectArgument(r, call),
                          float(Get(r, call.quizId, "estTheta")))
       IN Return(w, out.st, call, out.status)

\* line 250
CallRespond(w) ==
    /\ calls[w].pc = "respond"
    /\ LET call == calls[w]
       IN Continue(w, RPush(r, call.quizId, "responses", call.isCorrect),
                   [call EXCEPT !.pc = "estimate"])

\* lines 252-258
CallEstimate(w, estTheta) ==
    /\ calls[w].pc = "estimate"
    /\ LET call == calls[w]
       IN IF \/ ~EstimatorKnown(r, call.quizId)
             \/ EstimateRaises(get_items(r, call.quizId), call.administered_items,
                               get_responses(r, call.quizId))
          THEN Return(w, r, call, 500)
          ELSE Continue(w, Set(r, call.quizId, "estTheta", Theta(estTheta)),
                        [call EXCEPT !.pc = "stop", !.estTheta = estTheta])

\* lines 260-264 and, for a finished quiz, 279-284
CallStop(w) ==
    /\ calls[w].pc = "stop"
    /\ LET call == calls[w]
           rows == Administered(get_items(r, call.quizId), call.administered_items)
           s3 == Set(r, call.quizId, "standardErrorOfEstimation",
                     See(call.estTheta, rows))
           minStop == MinErrorStop(Get(r, call.quizId, "minMeasurementAccuracy"),
                                   call.estTheta, rows)
           maxItems == Get(r, call.quizId, "maxNumberOfQuestions")
       IN IF ~minStop /\ MaxItemRaises(maxItems, rows)
          THEN Return(w, s3, call, 500)
          ELSE LET quizFinished == QuizFinished(minStop, MaxItemStop(maxItems, rows))
                   s4 == Set(s3, call.quizId, "quizFinished", str(quizFinished))
               IN IF quizFinished THEN Return(w, s4, call, 200)
                  ELSE Continue(w, s4, [call EXCEPT !.pc = "deliver"])

\* lines 266-277 and 284
CallDeliver(w) ==
    /\ calls[w].pc = "deliver"
    /\ LET call == calls[w]
           out == Deliver(r, call.quizId, SelectArgument(r, call), call.estTheta)
       IN Return(w, out.st, call, out.status)

NextInterleaved ==
    \/ \E w \in Workers, quizId \in QuizIds, isCorrect \in Answers :
           CallGuard(w, quizId, isCorrect)
    \/ \E w \in Workers : CallRead(w)
    \/ \E w \in Workers : CallFirst(w)
    \/ \E w \in Workers : CallRespond(w)
    \/ \E w \in Workers, estTheta \in Thetas : CallEstimate(w, estTheta)
    \/ \E w \in Workers : CallStop(w)
    \/ \E w \in Workers : CallDeliver(w)

SpecInterleaved == InitInterleaved /\ [][NextInterleaved]_vars

\* =================================================================== claims
Finished(st, quizId) == strtobool(Get(st, quizId, "quizFinished"))
SelectorOf(quizId) == Get(r, quizId, "questionSelector")
NoRepeats(s) == \A i, j \in 1..Len(s) : i # j => s[i] # s[j]

\* sanity: a registered quiz has its configuration and its flag stored, and
\* the ability of an unfinished quiz is integral
TypeOK ==
    \A q \in QuizIds : quizIdExists(q) =>
        /\ \A k \in {"maxNumberOfQuestions", "minMeasurementAccuracy",
                     "questionSelector", "competencyEstimator",
                     "standardErrorOfEstimation", "quizFinished", "estTheta"} :
               Has(r, q, k)
        /\ ~Finished(r, q) => Get(r, q, "estTheta")[2] = 1

\* C1: in every registered quiz, after any sequence of requests (failing
\* ones included), len(responses) <= len(administeredItems) <= len(responses)+1
C1_ResponsesTrackAdministered ==
    \A q \in QuizIds : quizIdExists(q) =>
        /\ Len(r[q]["responses"]) <= Len(r[q]["administeredItems"])
        /\ Len(r[q]["administeredItems"]) <= Len(r[q]["responses"]) + 1

\* C2: the administeredItems of a maxInfoSelector quiz never hold the same
\* bank index twice
C2_MaxInfoNoRepeat ==
    \A q \in QuizIds :
        (quizIdExists(q) /\ SelectorOf(q) = "maxInfoSelector")
            => NoRepeats(r[q]["administeredItems"])

C2_Witness ==
    \E q \in QuizIds :
        /\ quizIdExists(q)
        /\ SelectorOf(q) = "maxInfoSelector"
        /\ last = Observation("requestNext", q, 200)
        /\ Len(r[q]["administeredItems"]) >= 2
        /\ Len(r[q]["responses"]) = Len(r[q]["administeredItems"]) - 1

\* C3: a quiz whose error threshold is never met (minMeasurementAccuracy 0)
\* and whose maxNumberOfQuestions is n >= 1 is finished exactly when n
\* responses are recorded
C3_FinishedAtNthResponse ==
    \A q \in QuizIds :
        (/\ quizIdExists(q)
         /\ Get(r, q, "minMeasurementAccuracy") = 0
         /\ Get(r, q, "maxNumberOfQuestions") >= 1)
            => (Finished(r, q)
                  <=> Len(r[q]["responses"]) >= Get(r, q, "maxNumberOfQuestions"))

\* C4: once quizFinished is true, no GET /quiz/question and no
\* GET /quiz/result turns it back to false
C4_FinishedMonotonic ==
    [][\A q \in QuizIds :
          (/\ quizIdExists(q)
           /\ Finished(r, q)
           /\ last'.op \in {"requestNext", "getResult"}) => Finished(r', q)]_vars

C4_Witness ==
    \E q \in QuizIds :
        /\ quizIdExists(q)
        /\ Finished(r, q)
        /\ last = Observation("getResult", q, 200)

\* C5: GET /quiz/question on a finished quiz is answered 406 and changes
\* nothing in the store
C5_FinishedRejected ==
    [][\A q \in QuizIds :
          (/\ quizIdExists(q)
           /\ Finished(r, q)
           /\ last'.op = "requestNext"
           /\ last'.quizId = q) => (last'.status = 406 /\ r' = r)]_vars

C5_Witness ==
    \E q \in QuizIds :
        /\ quizIdExists(q)
        /\ Finished(r, q)
        /\ last = Observation("requestNext", q, 406)

\* C6: a linearSelector quiz over a bank of N >= 1 questions is finished
\* exactly when N responses are recorded
C6_LinearFinishedAtLast ==
    \A q \in QuizIds :
        (/\ quizIdExists(q)
         /\ SelectorOf(q) = "linearSelector"
         /\ Len(r[q]["questions"]) >= 1)
            => (Finished(r, q)
                  <=> Len(r[q]["responses"]) >= Len(r[q]["questions"]))

\* C7: the k-th administered item of a linearSelector quiz is bank index k-1
C7_LinearInOrder ==
    \A q \in QuizIds :
        (quizIdExists(q) /\ SelectorOf(q) = "linearSelector")
            => \A k \in 1..Len(r[q]["administeredItems"]) :
                   r[q]["administeredItems"][k] = k - 1

\* C8: a request on an id that is not registered is answered 404 and
\* changes nothing, and a successful DELETE leaves the id unregistered
C8_NotFound ==
    [][\A q \in QuizIds :
          /\ (/\ ~quizIdExists(q)
              /\ last'.op \in {"requestNext", "getResult", "delete"}
              /\ last'.quizId = q)
                 => (last'.status = 404 /\ r' = r /\ quizIds' = quizIds)
          /\ last' = Observation("delete", q, 200)
                 => ~Registered(quizIds', q)]_vars

C8_Witness ==
    \E q \in QuizIds :
        /\ ~quizIdExists(q)
        /\ r[q]["administeredItems"] # <<>>
        /\ last = Observation("delete", q, 404)

\* C9: after a successful DELETE the store holds nothing under any key of
\* the quiz and the id is not registered
C9_DeleteRemovesAll ==
    \A q \in QuizIds :
        last = Observation("delete", q, 200)
            => /\ \A k \in Keys : r[q][k] = <<>>
               /\ ~quizIdExists(q)

\* C10: right after a successful POST /quiz the quiz is unfinished, has no
\* administered item and no response, and its bank is the list passed
C10_CreateStartsClean ==
    [][\A q \in QuizIds, quizAPI \in QuizAPIs, theta0 \in Thetas :
          (ApiCreateQuiz(q, quizAPI, theta0) /\ last'.status = 201)
              => /\ ~Finished(r', q)
                 /\ r'[q]["administeredItems"] = <<>>
                 /\ r'[q]["responses"] = <<>>
                 /\ r'[q]["questions"] = quizAPI.questions]_vars

\* C11: GET /quiz/question on a registered, unfinished quiz with an
\* administered item and an answer that is missing or outside [0,1] stores
\* nothing: no response, no administered item, estTheta, standard error and
\* the finished flag stay as they were
C11_InvalidAnswerNoChange ==
    [][\A q \in QuizIds, isCorrect \in Answers, estTheta \in Thetas :
          (/\ quizIdExists(q)
           /\ ~Finished(r, q)
           /\ Len(r[q]["administeredItems"]) >= 1
           /\ (isCorrect = NoAnswer \/ isCorrect < 0 \/ isCorrect > 1)
           /\ ApiGetNextQuestion(q, isCorrect, estTheta))
              => /\ r' = r
                 /\ last'.status = 500]_vars

\* an item is pending in a quiz with a known selector, and the request
\* failed without a response being stored
C11_Witness ==
    \E q \in QuizIds :
        /\ last = Observation("requestNext", q, 500)
        /\ quizIdExists(q)
        /\ ~Finished(r, q)
        /\ SelectorKnown(r, q)
        /\ EstimatorKnown(r, q)
        /\ r[q]["administeredItems"] # <<>>
        /\ r[q]["responses"] = <<>>
        /\ IndexOk(get_items(r, q), r[q]["administeredItems"][1])


\* C12: POST /quiz with an empty list of questions is rejected whatever the
\* selector and the estimator, and nothing is stored: the store and the
\* list of quiz ids are as before the request
C12_EmptyBankRejected ==
    [][\A q \in QuizIds, quizAPI \in QuizAPIs, theta0 \in Thetas :
          (ApiCreateQuiz(q, quizAPI, theta0) /\ quizAPI.questions = <<>>)
              => /\ last'.status # 201
                 /\ r' = r
                 /\ quizIds' = quizIds]_vars

\* C13: GET /quiz/result on a registered linear quiz that is not finished
\* answers 406 and stores nothing; it answers 200 only when the quiz was
\* finished
C13_LinearResultNotReady ==
    [][\A q \in QuizIds :
          (/\ quizIdExists(q)
           /\ SelectorOf(q) = "linearSelector"
           /\ last'.op = "getResult"
           /\ last'.quizId = q)
              => /\ ~Finished(r, q) => (last'.status = 406 /\ r' = r)
                 /\ last'.status = 200 => Finished(r, q)]_vars

\* the result of a linear quiz with a delivered, unanswered question was
\* asked for and refused
C13_Witness ==
    \E q \in QuizIds :
        /\ last = Observation("getResult", q, 406)
        /\ quizIdExists(q)
        /\ SelectorOf(q) = "linearSelector"
        /\ ~Finished(r, q)
        /\ r[q]["administeredItems"] # <<>>


\* difficulty of the question delivered i-th, and the two sums of the
\* linear score over the questions delivered so far
DeliveredDifficulty(q, i) ==
    r[q]["questions"][r[q]["administeredItems"][i] + 1].difficulty

RECURSIVE Achieved(_, _)
Achieved(q, n) ==
    IF n = 0 THEN 0
    ELSE Achieved(q, n - 1) + DeliveredDifficulty(q, n) * r[q]["responses"][n]

RECURSIVE Achievable(_, _)
Achievable(q, n) ==
    IF n = 0 THEN 0 ELSE Achievable(q, n - 1) + DeliveredDifficulty(q, n)

C15_AdaptiveResultAlways ==
    [][\A q \in QuizIds :
          (/\ quizIdExists(q)
           /\ SelectorOf(q) = "maxInfoSelector"
           /\ last'.op = "getResult"
           /\ last'.quizId = q)
              => /\ last'.status = 200
                 /\ r' = r]_vars

\* C16: the id a POST /quiz assigns differs from the id of every registered
\* quiz: no id is in the list of quiz ids twice
C16_UniqueQuizIds == NoRepeats(quizIds)


\* C18: whenever GET /quiz/question records a response, the finished flag
\* afterwards equals (standard error <= minMeasurementAccuracy) OR
\* (number of administered items >= maxNumberOfQuestions)
C18_FinishedIsStopRule ==
    [][\A q \in QuizIds :
          (/\ quizIdExists(q)
           /\ last'.op = "requestNext"
           /\ last'.quizId = q
           /\ Len(r'[q]["responses"]) = Len(r[q]["responses"]) + 1)
              => (Finished(r', q) <=>
                    \/ Get(r', q, "standardErrorOfEstimation")
                         <= Get(r, q, "minMeasurementAccuracy")
                    \/ Len(r[q]["administeredItems"])
                         >= Get(r, q, "maxNumberOfQuestions"))]_vars

\* C19: the first GET /quiz/question of a registered quiz without an
\* administered item, whatever answer it carries, succeeds, appends exactly
\* one index to administeredItems, records no response and leaves estTheta,
\* the standard error and the finished flag (false) as they were
C19_FirstRequestDelivers ==
    [][\A q \in QuizIds :
          (/\ quizIdExists(q)
           /\ SelectorKnown(r, q)
           /\ ~Finished(r, q)
           /\ r[q]["administeredItems"] = <<>>
           /\ last'.op = "requestNext"
           /\ last'.quizId = q)
              => /\ last'.status = 200
                 /\ Len(r'[q]["administeredItems"]) = 1
                 /\ r'[q]["responses"] = r[q]["responses"]
                 /\ r'[q]["estTheta"] = r[q]["estTheta"]
                 /\ r'[q]["standardErrorOfEstimation"]
                      = r[q]["standardErrorOfEstimation"]
                 /\ ~Finished(r', q)]_vars

\* C20 as stated: in every registered quiz the standard error is the
\* default of a new quiz exactly when administeredItems is empty
C20_DefaultIffNothingAdministered ==
    \A q \in QuizIds : quizIdExists(q) =>
        (Get(r, q, "standardErrorOfEstimation") = DefaultSEE
            <=> r[q]["administeredItems"] = <<>>)

\* C20, amended: in every registered quiz the standard error is the default
\* of a new quiz whenever administeredItems is empty (it may still be the
\* default while administered items exist)
C20_DefaultWhileNothingAdministered ==
    \A q \in QuizIds :
        (quizIdExists(q) /\ r[q]["administeredItems"] = <<>>)
            => Get(r, q, "standardErrorOfEstimation") = DefaultSEE

\* the result of a quiz without an administered item was read
C20_Witness ==
    \E q \in QuizIds :
        /\ last = Observation("getResult", q, 200)
        /\ quizIdExists(q)
        /\ r[q]["administeredItems"] = <<>>
        /\ Get(r, q, "standardErrorOfEstimation") = DefaultSEE


\* the call has stored its response (line 250)
Recorded(call) ==
    \/ call.pc \in {"estimate", "stop", "deliver"}
    \/ /\ call.pc = "done"
       /\ call.status \in {200, 500}
       /\ call.administered_items # <<>>
       /\ ValidAnswer(call.isCorrect)

\* C17: two GET /quiz/question of the same quiz served side by side leave
\* the quiz unsafe.  When both took the first-question branch of a quiz with
\* the maximum-information selector and both succeeded, administeredItems
\* holds the same index twice; when both read the same administeredItems
\* and both stored a response before either delivered a question, more
\* responses are stored than items are administered.
C17_InterleavedCallsUnsafe ==
    \A q \in QuizIds :
        (\A w \in Workers : calls[w].quizId = q) =>
            /\ (/\ SelectorOf(q) = "maxInfoSelector"
                /\ \A w \in Workers :
                      /\ calls[w].pc = "done"
                      /\ calls[w].status = 200
                      /\ calls[w].administered_items = <<>>)
                   => ~NoRepeats(r[q]["administeredItems"])
            /\ (\A w \in Workers :
                      /\ Recorded(calls[w])
                      /\ calls[w].administered_items = r[q]["administeredItems"])
                   => Len(r[q]["responses"]) > Len(r[q]["administeredItems"])

\* both requests have succeeded on a quiz with the maximum-information
\* selector and a bank of two questions, and the same question was
\* delivered twice
C17_Witness ==
    \E q \in QuizIds :
        /\ SelectorOf(q) = "maxInfoSelector"
        /\ Len(r[q]["questions"]) = 2
        /\ \A w \in Workers : calls[w].pc = "done" /\ calls[w].status = 200
        /\ Len(r[q]["administeredItems"]) = 2
        /\ r[q]["administeredItems"][1] = r[q]["administeredItems"][2]


\* C21: whenever GET /quiz/question gets as far as calling the estimator
\* (registered unfinished quiz, administered item, valid answer, estimator
\* bound), the response vector it passes, the stored responses with the new
\* answer appended, has one response per administered item and is not empty
C21_EstimatorGetsMatchingVectors ==
    [][\A q \in QuizIds, isCorrect \in Answers, estTheta \in Thetas :
          (/\ quizIdExists(q)
           /\ ~Finished(r, q)
           /\ SelectorKnown(r, q)
           /\ r[q]["administeredItems"] # <<>>
           /\ ValidAnswer(isCorrect)
           /\ EstimatorKnown(r, q)
           /\ ApiGetNextQuestion(q, isCorrect, estTheta))
              => /\ Len(r[q]["responses"]) + 1 = Len(r[q]["administeredItems"])
                 /\ Len(r[q]["responses"]) + 1 >= 1]_vars

\* C22: on a registered unfinished quiz with a non-empty bank,
\* maxNumberOfQuestions >= 1 and one of the two selectors, every
\* GET /quiz/question with a valid answer either delivers a further question
\* or finishes the quiz
C22_ValidCallProgresses ==
    [][\A q \in QuizIds, isCorrect \in Answers, estTheta \in Thetas :
          (/\ quizIdExists(q)
           /\ ~Finished(r, q)
           /\ SelectorKnown(r, q)
           /\ r[q]["questions"] # <<>>
           /\ Get(r, q, "maxNumberOfQuestions") >= 1
           /\ ValidAnswer(isCorrect)
           /\ ApiGetNextQuestion(q, isCorrect, estTheta))
              => \/ Finished(r', q)
                 \/ Len(r'[q]["administeredItems"])
                      = Len(r[q]["administeredItems"]) + 1]_vars

\* C23: a GET /quiz/question that does not answer 200 leaves responses,
\* administeredItems, estTheta, the standard error and the finished flag of
\* the quiz as they were
C23_FailedCallNoChange ==
    [][\A q \in QuizIds :
          (/\ last'.op = "requestNext"
           /\ last'.quizId = q
           /\ last'.status # 200)
              => \A k \in {"responses", "administeredItems", "estTheta",
                           "standardErrorOfEstimation", "quizFinished"} :
                     r'[q][k] = r[q][k]]_vars

\* C24: in every registered quiz every element of administeredItems is an
\* index into the stored bank, 0 <= index < len(questions)
C24_AdministeredInBank ==
    \A q \in QuizIds : quizIdExists(q) =>
        \A i \in 1..Len(r[q]["administeredItems"]) :
            IndexOk(get_items(r, q), r[q]["administeredItems"][i])

====
